---- MODULE Spec2Model ----
(***************************************************************************)
(* ArticleVault: the document assembly engine (src/utils.py, MSWord), the  *)
(* orchestrator that validates the scraped article and drives the build    *)
(* (src/scraper.py, ArticleDownloader).                                    *)
(*                                                                         *)
(* The specifications that share the module:                               *)
(*   Spec        one ArticleDownloader.run, step by step, on a session's   *)
(*               directory tree;                                           *)
(*   SpecNet     the same run when an image server may never answer;       *)
(*   SpecCheck   ArticleDownloader.check_structure as a pure function;     *)
(*   SpecInterp  the inline-markup branch of create_page_bordered_docx as  *)
(*               a pure function of one text block's content;              *)
(*   SpecScan    the same branch with its while loop taken one iteration   *)
(*               at a time;                                                *)
(*   SpecBorder  MSWord._add_page_border applied again and again to one    *)
(*               document;                                                 *)
(*   SpecTwo     two create_page_bordered_docx calls interleaved on one    *)
(*               disk, one file-system call at a time;                     *)
(*   SpecSingleton  ArticleDownloader() called from two script threads;    *)
(*   SpecApp     the Streamlit script of one session and its Extract       *)
(*               button.                                                   *)
(* A Python str is a sequence of one-character strings; a Python dict of   *)
(* the scraped JSON is a record of the keys it holds plus their values.    *)
(***************************************************************************)
EXTENDS Integers, Sequences, FiniteSets, TLC

VARIABLES
    \* ---- Spec: one run of ArticleDownloader.run
    pc,            \* position of the run in scraper.py/utils.py
    result,        \* what scrape(url) returned
    fs,            \* the paths that exist on disk
    fs0,           \* the paths that existed when the run started
    progress,      \* the percentages passed to progress_callback, in order
    im_dict,       \* _temp_download_images: url -> local path
    idx,           \* loop index of the download loop / the block loop
    doc,           \* the python-docx document: its paragraphs, in order
    log,           \* records written by logger.error / logger.info
    error,         \* the exception that ended the run, "" if none
    returned,      \* the path run() returned, <<>> if none
    \* ---- SpecCheck
    candidate,     \* argument of check_structure
    verdict,       \* its outcome
    \* ---- SpecInterp
    text_content,  \* block["content"] of one text block
    paragraph,     \* the paragraph rendered for it
    \* ---- SpecScan (with text_content and paragraph)
    remaining_text, \* the local of the while loop
    scan_pc,       \* position in the markup branch
    \* ---- SpecBorder
    sections,      \* doc.sections: the pgBorders children of each sectPr
    applied,       \* the (border_color, border_width) of each call so far
    \* ---- SpecTwo
    builds,        \* the state of each of two create_page_bordered_docx calls
    shared_fs,     \* the paths that exist on the disk both work on
    shared_fs0,    \* the paths that existed before either started
    \* ---- SpecSingleton
    cls_instance,  \* ArticleDownloader._instance: 0 for None, else the object's number
    objects,       \* the ArticleDownloader objects made so far, by number
    threads,       \* each script thread's position in ArticleDownloader()
    \* ---- SpecApp
    app_pc,        \* the script of one session: waiting for the user, or where it runs
    extracting,    \* st.session_state.extracting
    url_input,     \* st.session_state["url_input"], the text box
    session_result, \* st.session_state.result and path: "None" or the URL extracted
    button_disabled, \* the disabled flag the Extract button on screen was drawn with
    clear_shown,   \* a Clear button is on screen
    attempts       \* how each extraction attempt so far ended

runVars == <<pc, result, fs, fs0, progress, im_dict, idx, doc, log, error, returned>>
csVars == <<candidate, verdict>>
inVars == <<text_content, paragraph>>
scanVars == <<remaining_text, scan_pc>>
bdVars == <<sections, applied>>
twoVars == <<builds, shared_fs, shared_fs0>>
sgVars == <<cls_instance, objects, threads>>
appVars == <<app_pc, extracting, url_input, session_result, button_disabled, clear_shown,
             attempts>>
vars == <<runVars, csVars, inVars, scanVars, bdVars, twoVars, sgVars, appVars>>

\* the variables a specification leaves alone
notRun == <<csVars, inVars, scanVars, bdVars, twoVars, sgVars, appVars>>
notCheck == <<runVars, inVars, scanVars, bdVars, twoVars, sgVars, appVars>>
notInterp == <<runVars, csVars, scanVars, bdVars, twoVars, sgVars, appVars>>
notScan == <<runVars, csVars, bdVars, twoVars, sgVars, appVars>>
notBorder == <<runVars, csVars, inVars, scanVars, twoVars, sgVars, appVars>>
notTwo == <<runVars, csVars, inVars, scanVars, bdVars, sgVars, appVars>>
notSingleton == <<runVars, csVars, inVars, scanVars, bdVars, twoVars, appVars>>
notApp == <<runVars, csVars, inVars, scanVars, bdVars, twoVars, sgVars>>

----------------------------------------------------------------------------
(* Bounds of the model *)

\* longest text drawn for the markup interpreter
MaxLen == 6
\* most content blocks in a scraped article
MaxBlocks == 2

\* most calls of _add_page_border on one document
MaxApply == 3

\* most sections of a document
MaxSections == 2

\* most ArticleDownloader() calls of one script thread
MaxCalls == 2

\* most extraction attempts of one session
MaxAttempts == 3

----------------------------------------------------------------------------
(* Python str operations used by the renderer *)

Range(s) == {s[i] : i \in 1..Len(s)}

Min(S) == CHOOSE x \in S : \A y \in S : x <= y

\* s[a:b] for 0 <= a, 0 <= b
Slice(s, a, b) == SubSeq(s, a + 1, IF b > Len(s) THEN Len(s) ELSE b)

\* s[a:]
SliceFrom(s, a) == SubSeq(s, a + 1, Len(s))

\* s.startswith(p)
StartsWith(s, p) == Len(s) >= Len(p) /\ SubSeq(s, 1, Len(p)) = p

\* s.endswith(p)
EndsWith(s, p) == Len(s) >= Len(p) /\ SubSeq(s, Len(s) - Len(p) + 1, Len(s)) = p

\* s.find(p, start): the lowest 0-based index >= start where p occurs, else -1
Find(s, p, start) ==
    LET hits == {i \in start..(Len(s) - Len(p)) : SubSeq(s, i + 1, i + Len(p)) = p}
    IN IF hits = {} THEN -1 ELSE Min(hits)

\* s.lstrip(chars): chars is a SET of characters, not a prefix
RECURSIVE LStripChars(_, _)
LStripChars(s, cs) ==
    IF s # <<>> /\ Head(s) \in cs THEN LStripChars(Tail(s), cs) ELSE s

\* s.rstrip(chars)
RECURSIVE RStripChars(_, _)
RStripChars(s, cs) ==
    IF s # <<>> /\ s[Len(s)] \in cs THEN RStripChars(SubSeq(s, 1, Len(s) - 1), cs) ELSE s

\* s.strip(chars)
StripChars(s, cs) == RStripChars(LStripChars(s, cs), cs)

\* the whitespace of the alphabet: s.lstrip() and s.strip() strip these
Whitespace == {" ", "\n"}

----------------------------------------------------------------------------
(* python-docx runs and paragraphs *)

\* paragraph.add_run(text): bold and italic unset, default size (0), no picture
PlainRun(t) == [text |-> t, bold |-> FALSE, italic |-> FALSE, size |-> 0, pic |-> FALSE]

BoldRun(t) == [text |-> t, bold |-> TRUE, italic |-> FALSE, size |-> 0, pic |-> FALSE]

ItalicRun(t) == [text |-> t, bold |-> FALSE, italic |-> TRUE, size |-> 0, pic |-> FALSE]

\* run.bold = True; run.font.size = Pt(sz)
HeadingRun(t, sz) == [text |-> t, bold |-> TRUE, italic |-> FALSE, size |-> sz, pic |-> FALSE]

\* p.add_run() followed by run.add_picture(image_path): an empty run holding the picture
PictureRun == [text |-> <<>>, bold |-> FALSE, italic |-> FALSE, size |-> 0, pic |-> TRUE]

\* p.add_run() whose add_picture raised: the empty run stays in the paragraph
EmptyRun == PlainRun(<<>>)

----------------------------------------------------------------------------
(* The inline markup interpreter: utils.py, the text branch of the block loop *)

BoldMarker == <<"*", "*">>

\* the while loop over remaining_text
RECURSIVE InlineScan(_)
InlineScan(rt) ==
    IF rt = <<>> THEN <<>>
    ELSE
    LET bold_start == Find(rt, BoldMarker, 0)
        bold_end == IF bold_start # -1
                    THEN Find(rt, BoldMarker, bold_start + 2) ELSE -1
        italic_marker == IF "_" \in Range(rt) THEN "_" ELSE "*"
        italic_start == Find(rt, <<italic_marker>>, 0)
        italic_end == IF italic_start # -1
                      THEN Find(rt, <<italic_marker>>, italic_start + 1) ELSE -1
    IN  IF bold_start # -1 /\ bold_end # -1
        THEN (IF bold_start > 0
              THEN <<PlainRun(Slice(rt, 0, bold_start))>> ELSE <<>>)
             \o <<BoldRun(Slice(rt, bold_start + 2, bold_end))>>
             \o InlineScan(SliceFrom(rt, bold_end + 2))
        ELSE IF italic_start # -1 /\ italic_end # -1
        THEN (IF italic_start > 0
              THEN <<PlainRun(Slice(rt, 0, italic_start))>> ELSE <<>>)
             \o <<ItalicRun(Slice(rt, italic_start + 1, italic_end))>>
             \o InlineScan(SliceFrom(rt, italic_end + 1))
        ELSE <<PlainRun(rt)>>

\* the if/elif chain that picks heading, whole-paragraph bold or italic, or the scan;
\* the result is the paragraph's style and runs
Interpret(t) ==
    IF StartsWith(LStripChars(t, Whitespace), <<"#", "#">>)
    THEN [style |-> "Heading 2",
          runs |-> <<HeadingRun(StripChars(LStripChars(t, {"#"}), Whitespace), 14)>>]
    ELSE IF StartsWith(LStripChars(t, Whitespace), <<"#">>)
    THEN [style |-> "Heading 1",
          runs |-> <<HeadingRun(StripChars(LStripChars(t, {"#"}), Whitespace), 15)>>]
    ELSE IF StartsWith(t, BoldMarker) /\ EndsWith(t, BoldMarker)
    THEN [style |-> "Normal", runs |-> <<BoldRun(StripChars(t, {"*"}))>>]
    ELSE IF \/ StartsWith(t, <<"_">>) /\ EndsWith(t, <<"_">>)
            \/ StartsWith(t, <<"*">>) /\ EndsWith(t, <<"*">>)
    THEN [style |-> "Normal", runs |-> <<ItalicRun(StripChars(t, {"_", "*"}))>>]
    ELSE [style |-> "Normal", runs |-> InlineScan(t)]

\* the paragraph variable before the block is rendered
NoParagraph == [style |-> "none", runs |-> <<>>]

----------------------------------------------------------------------------
(* SpecInterp: the interpreter applied to every text of the alphabet *)

Alphabet == {"*", "_", "#", "a", " "}

RECURSIVE Strings(_)
Strings(n) ==
    IF n = 0 THEN {<<>>}
    ELSE LET shorter == Strings(n - 1)
         IN shorter \cup {Append(s, c) : s \in {x \in shorter : Len(x) = n - 1}, c \in Alphabet}

\* texts longer than MaxLen with two spans side by side: "_a_**a**", "a _a_ **a**",
\* "**a**_a_"
LongTexts ==
    { <<"_", "a", "_", "*", "*", "a", "*", "*">>,
      <<"a", " ", "_", "a", "_", " ", "*", "*", "a", "*", "*">>,
      <<"*", "*", "a", "*", "*", "_", "a", "_">> }

\* text blocks that reach the interpreter: `if text_content:` lets only non-empty ones in
Texts == (Strings(MaxLen) \ {<<>>}) \cup LongTexts

RunIdle ==
    /\ pc = "idle" /\ result = "none" /\ fs = {} /\ fs0 = {} /\ progress = <<>>
    /\ im_dict = <<>> /\ idx = 0 /\ doc = <<>> /\ log = {} /\ error = ""
    /\ returned = <<>>

CheckIdle == candidate = "none" /\ verdict = "none"

InterpIdle == text_content = <<>> /\ paragraph = NoParagraph

ScanIdle == remaining_text = <<>> /\ scan_pc = "idle"

BorderIdle == sections = <<>> /\ applied = <<>>

TwoIdle == builds = <<>> /\ shared_fs = {} /\ shared_fs0 = {}

SingletonIdle == cls_instance = 0 /\ objects = <<>> /\ threads = <<>>

AppIdle ==
    /\ app_pc = "idle" /\ extracting = FALSE /\ url_input = "" /\ session_result = "None"
    /\ button_disabled = FALSE /\ clear_shown = FALSE /\ attempts = <<>>

InitInterp ==
    /\ text_content \in Texts
    /\ paragraph = NoParagraph
    /\ RunIdle /\ CheckIdle /\ ScanIdle /\ BorderIdle /\ TwoIdle /\ SingletonIdle /\ AppIdle

RenderText ==
    /\ paragraph = NoParagraph
    /\ paragraph' = Interpret(text_content)
    /\ UNCHANGED <<text_content, notInterp>>

NextInterp == RenderText

SpecInterp == InitInterp /\ [][NextInterp]_vars

----------------------------------------------------------------------------
(* ArticleDownloader.check_structure: scraper.py                           *)
(* A scraped value is [isDict, keys, title, date, cbIsList,                *)
(* content_blocks]; a block is [isDict, keys, type, content, url,          *)
(* caption]. `keys` are the keys the dict holds; a field whose key is      *)
(* absent is never read.                                                   *)

required_keys == {"title", "date", "author", "content_blocks"}

BlockKeys == {"type", "content", "url", "alt_text", "caption"}

\* values of block["type"]: the two valid ones, another string, and a value that
\* cannot be hashed (a JSON list or object), for which `x in {...}` raises TypeError
TypeValues == {"text", "image", "video", "unhashable"}

ReturnsTrue == [kind |-> "True", msg |-> ""]

ValueError(m) == [kind |-> "ValueError", msg |-> m]

TypeError(m) == [kind |-> "TypeError", msg |-> m]

\* 'url' not in block or 'alt_text' not in block or 'caption' not in block
ImageFieldsMissing(block) ==
    "url" \notin block.keys \/ "alt_text" \notin block.keys \/ "caption" \notin block.keys

\* the body of `for block in result['content_blocks']`: "ok" or the exception raised
CheckBlock(block) ==
    IF ~block.isDict
    THEN ValueError("Each content block must be a dictionary")
    ELSE IF "type" \notin block.keys
    THEN ValueError("Each content block must have a valid 'type' key")
    ELSE IF block.type = "unhashable"
    THEN TypeError("unhashable type")
    ELSE IF block.type \notin {"text", "image"}
    THEN ValueError("Each content block must have a valid 'type' key")
    ELSE IF block.type = "text" /\ "content" \notin block.keys
    THEN ValueError("Text blocks must have a 'content' key")
    ELSE IF block.type = "image" /\ ImageFieldsMissing(block)
    THEN ValueError("Image blocks must have 'url' and 'alt_text' keys")
    ELSE ReturnsTrue

\* a loop that goes on after a bad block and so reports the last one
RECURSIVE CheckBlocks_Last(_)
CheckBlocks_Last(blocks) ==
    IF blocks = <<>> THEN ReturnsTrue
    ELSE LET rest == CheckBlocks_Last(Tail(blocks))
         IN IF rest # ReturnsTrue THEN rest ELSE CheckBlock(Head(blocks))

\* the for loop: the first block that raises ends it
RECURSIVE CheckBlocks(_)
CheckBlocks(blocks) ==
    IF blocks = <<>> THEN ReturnsTrue
    ELSE LET first == CheckBlock(Head(blocks))
         IN IF first # ReturnsTrue THEN first ELSE CheckBlocks(Tail(blocks))

check_structure(res) ==
    IF ~res.isDict
    THEN ValueError("Result must be a dictionary")
    ELSE IF ~(required_keys \subseteq res.keys)
    THEN ValueError("Result must contain keys")
    ELSE IF ~res.cbIsList
    THEN ValueError("content_blocks must be a list")
    ELSE CheckBlocks(res.content_blocks)

----------------------------------------------------------------------------
(* SpecCheck: check_structure applied to every scraped value of the bounds *)

\* a block that is not a dict (a string, a number)
NotADict ==
    [isDict |-> FALSE, keys |-> {}, type |-> "none", content |-> <<>>,
     url |-> "none", caption |-> <<>>]

\* a dict block holding keys K, with the given values under the keys it holds
DictBlock(K, ty, co, u, ca) ==
    [isDict |-> TRUE, keys |-> K,
     type |-> IF "type" \in K THEN ty ELSE "none",
     content |-> IF "content" \in K THEN co ELSE <<>>,
     url |-> IF "url" \in K THEN u ELSE "none",
     caption |-> IF "caption" \in K THEN ca ELSE <<>>]

\* every key set with text or image as type; the other types with none or all keys
CheckBlockShapes ==
    {NotADict}
    \cup {DictBlock(K \cup {"type"}, ty, <<"a">>, "u1", <<"c">>) :
            K \in SUBSET (BlockKeys \ {"type"}), ty \in {"text", "image"}}
    \cup {DictBlock(K \cup {"type"}, ty, <<"a">>, "u1", <<"c">>) :
            K \in {{}, BlockKeys}, ty \in {"video", "unhashable"}}
    \cup {DictBlock(K, "none", <<"a">>, "u1", <<"c">>) :
            K \in {{}, BlockKeys \ {"type"}}}

RECURSIVE SeqsUpTo(_, _)
SeqsUpTo(S, n) ==
    IF n = 0 THEN {<<>>}
    ELSE LET shorter == SeqsUpTo(S, n - 1)
         IN shorter \cup {Append(q, x) : q \in {y \in shorter : Len(y) = n - 1}, x \in S}

NotAResultDict ==
    [isDict |-> FALSE, keys |-> {}, title |-> <<>>, date |-> <<>>, cbIsList |-> FALSE,
     content_blocks |-> <<>>]

ResultDict(K, da, isList, blocks) ==
    [isDict |-> TRUE, keys |-> K,
     title |-> IF "title" \in K THEN <<"T">> ELSE <<>>,
     date |-> IF "date" \in K THEN da ELSE <<>>,
     cbIsList |-> isList /\ "content_blocks" \in K,
     content_blocks |-> IF isList /\ "content_blocks" \in K THEN blocks ELSE <<>>]

\* key sets of the top level: all four, or one of them missing
TopKeySets == {required_keys} \cup {required_keys \ {k} : k \in required_keys}

Candidates ==
    {NotAResultDict}
    \cup {ResultDict(K, <<"2025-06-18">>, FALSE, <<>>) : K \in TopKeySets}
    \cup {ResultDict(K, <<"2025-06-18">>, TRUE, b) : K \in TopKeySets, b \in SeqsUpTo(CheckBlockShapes, MaxBlocks)}

NoVerdict == [kind |-> "none", msg |-> ""]

InitCheck ==
    /\ candidate \in Candidates
    /\ verdict = NoVerdict
    /\ RunIdle /\ InterpIdle /\ ScanIdle /\ BorderIdle /\ TwoIdle /\ SingletonIdle /\ AppIdle

CheckStructure ==
    /\ verdict = NoVerdict
    /\ verdict' = check_structure(candidate)
    /\ UNCHANGED <<candidate, notCheck>>

NextCheck == CheckStructure

SpecCheck == InitCheck /\ [][NextCheck]_vars

----------------------------------------------------------------------------
(* The session's directory tree. A path is the sequence of its segments.   *)

unique_id == "s1"

docx_filename == "article_with_border.docx"

\* f"temp/{uuid}"
SessionDir(uuid) == <<"temp", uuid>>

\* image_session_path = f"temp/{uuid}/temp_images"
image_session_path(uuid) == <<"temp", uuid, "temp_images">>

\* docx_session_path = f"temp/{uuid}/{filename}"
docx_session_path(uuid, filename) == <<"temp", uuid, filename>>

\* os.path.dirname
Dirname(p) == SubSeq(p, 1, Len(p) - 1)

\* os.path.exists
Exists(disk, p) == p \in disk

IsPrefix(p, q) == Len(p) <= Len(q) /\ SubSeq(q, 1, Len(p)) = p

\* os.makedirs(p): p and every missing parent
MakeDirs(disk, p) == disk \cup {SubSeq(p, 1, k) : k \in 1..Len(p)}

\* shutil.rmtree(p): p and everything below it
RmTree(disk, p) == {q \in disk : ~IsPrefix(p, q)}

\* open(p, 'wb'), img.save(p), doc.save(p): the parent directory must exist
CanWrite(disk, p) == Exists(disk, Dirname(p))

\* `if not os.path.exists(os.path.dirname(f'temp/{uuid}')): os.makedirs(...)`:
\* the dirname of temp/{uuid} is temp, so this makes temp and not the session directory
EnsureTempRoot(disk, uuid) ==
    IF ~Exists(disk, Dirname(SessionDir(uuid)))
    THEN MakeDirs(disk, Dirname(SessionDir(uuid)))
    ELSE disk

\* `if not os.path.exists(download_path): os.makedirs(download_path)`
EnsureDownloadPath(disk, download_path) ==
    IF ~Exists(disk, download_path) THEN MakeDirs(disk, download_path) ELSE disk

\* a cleanup that only logs
TempDeleteImages_Keep(disk, download_path) == disk

\* _temp_delete_images: rmtree when the directory exists
TempDeleteImages(disk, download_path) ==
    IF Exists(disk, download_path) THEN RmTree(disk, download_path) ELSE disk

----------------------------------------------------------------------------
(* Progress percentages: exact rationals n/d *)

Pct(k) == [n |-> k, d |-> 1]

\* lower + (i / total) * 10
Band(lower, i, total) == [n |-> lower * total + i * 10, d |-> total]

PctLeq(a, b) == a.n * b.d <= b.n * a.d

----------------------------------------------------------------------------
(* _temp_download_images: utils.py *)

Urls == {"u1", "u2"}

\* safe_name = f"{base_name}_{hash(img_url) % 10000}": both urls end in pic.jpg and
\* hash to different suffixes
\* os.path.join(download_path, f"{safe_name}.png")
PngPath(download_path, u) ==
    Append(download_path, IF u = "u1" THEN "pic_0017.png" ELSE "pic_4242.png")

\* os.path.join(download_path, f"{safe_name}{extension}"), extension guessed or .jpg
RawPath(download_path, u) ==
    Append(download_path, IF u = "u1" THEN "pic_0017.jpg" ELSE "pic_4242.jpg")

\* what one pass of the try body can do: raise before im_dict is written (the get,
\* raise_for_status, the write of the temp file), convert to PNG, or keep the raw bytes
Outcomes == {"failed", "converted", "kept_raw"}

\* im_dict[img_url] = final_path
Put(d, k, v) == [x \in DOMAIN d \cup {k} |-> IF x = k THEN v ELSE d[x]]

\* a failure that also forgets what an earlier pass stored for the url
ImDictAfter_DropOnFailure(d, download_path, u, outcome) ==
    IF outcome = "converted" THEN Put(d, u, PngPath(download_path, u))
    ELSE IF outcome = "kept_raw" THEN Put(d, u, RawPath(download_path, u))
    ELSE [x \in DOMAIN d \ {u} |-> d[x]]

\* the map after one pass of the loop body
ImDictAfter(d, download_path, u, outcome) ==
    IF outcome = "converted" THEN Put(d, u, PngPath(download_path, u))
    ELSE IF outcome = "kept_raw" THEN Put(d, u, RawPath(download_path, u))
    ELSE d

\* the disk after one pass: the temp file is written, then replaced by the final file
DiskAfter(disk, download_path, u, outcome) ==
    IF outcome = "converted" THEN disk \cup {PngPath(download_path, u)}
    ELSE IF outcome = "kept_raw" THEN disk \cup {RawPath(download_path, u)}
    ELSE disk

\* the record each pass logs
LogAfter(i, u, outcome) ==
    [event |-> IF outcome = "failed" THEN "Failed to download"
               ELSE IF outcome = "converted" THEN "converted and saved"
               ELSE "Image conversion failed",
     at |-> i, url |-> u]

----------------------------------------------------------------------------
(* MSWord._add_page_border: utils.py *)

border_width == 200

HexDigits == <<"0", "1", "2", "3", "4", "5", "6", "7", "8", "9", "a", "b", "c", "d", "e", "f">>

\* f"{n:02x}" for 0 <= n < 256
Hex02(n) == <<HexDigits[(n \div 16) + 1], HexDigits[(n % 16) + 1]>>

\* hex_color = f"{r:02x}{g:02x}{b:02x}"
hex_color(rgb) == Hex02(rgb[1]) \o Hex02(rgb[2]) \o Hex02(rgb[3])

\* the brown of create_docx
border_color == <<150, 42, 46>>

\* the w:pgBorders element: four single borders of one size and colour
PgBorders(rgb, width) ==
    [offsetFrom |-> "page", edges |-> <<"top", "left", "bottom", "right">>,
     val |-> "single", sz |-> width, space |-> 0, color |-> hex_color(rgb)]

\* the new element appended without removing the one that is there
SectionBordered_Duplicate(sectPr, rgb, width) == Append(sectPr, PgBorders(rgb, width))

\* the body of `for section in doc.sections`, on the pgBorders children of one sectPr:
\* sectPr.remove(sectPr.find(...)) drops the first pgBorders child, append adds the new one
SectionBordered(sectPr, rgb, width) ==
    Append(IF sectPr # <<>> THEN Tail(sectPr) ELSE sectPr, PgBorders(rgb, width))

\* A Document() has one section; d.pgBorders are that section's pgBorders children.
add_page_border(d, rgb, width) ==
    [d EXCEPT !.pgBorders = SectionBordered(@, rgb, width)]

----------------------------------------------------------------------------
(* MSWord.create_page_bordered_docx: the document and the block loop *)

Para(kind, i, style, align, runs) ==
    [kind |-> kind, block |-> i, style |-> style, align |-> align, runs |-> runs]

NewDocument == [paragraphs |-> <<>>, pgBorders |-> <<>>]

\* paragraphs inserted at the head of the body instead of its end
AddParagraphs_Prepend(d, ps) == [d EXCEPT !.paragraphs = ps \o @]

\* doc.add_paragraph() and what follows, for each paragraph of ps
AddParagraphs(d, ps) == [d EXCEPT !.paragraphs = @ \o ps]

\* the title, the date if there is one, the source url
ShellParagraphs(res, url) ==
    <<Para("title", 0, "Normal", "CENTER", <<HeadingRun(res.title, 16)>>)>>
    \o (IF res.date # <<>>
        THEN <<Para("date", 0, "Normal", "CENTER", <<ItalicRun(res.date)>>)>> ELSE <<>>)
    \o <<Para("url", 0, "Normal", "LEFT", <<ItalicRun(url)>>)>>

\* one paragraph for each run of the block, and one even for an empty content
TextParagraphs_PerRun(i, block) ==
    LET p == Interpret(block.content)
    IN IF block.content = <<>> THEN <<Para("text", i, "Normal", "", <<>>)>>
       ELSE [k \in 1..Len(p.runs) |-> Para("text", i, p.style, "", <<p.runs[k]>>)]

\* block_type == "text": `if text_content:` then one doc.add_paragraph() and its runs
TextParagraphs(i, block) ==
    IF block.content # <<>>
    THEN LET p == Interpret(block.content)
         IN <<Para("text", i, p.style, "", p.runs)>>
    ELSE <<>>

Unavailable == <<"[Image unavailable]">>

NotDisplayed == <<"[Image could not be displayed]">>

\* image_path and os.path.exists(image_path), image_path = images.get(url, None)
ImageOnDisk(images, disk, u) == u \in DOMAIN images /\ Exists(disk, images[u])

\* a renderer that shows the placeholder and the picture together when embedding works
ImageParagraphs_Both(i, block, images, disk, raised) ==
    IF ImageOnDisk(images, disk, block.url)
    THEN <<Para("image", i, "Normal", "CENTER", <<PictureRun, ItalicRun(Unavailable)>>)>>
    ELSE <<Para("image", i, "Normal", "CENTER", <<ItalicRun(Unavailable)>>)>>

\* block_type == "image": the picture and its caption paragraph, or the placeholder of
\* the except branch with the caption in the same paragraph, or the placeholder of the
\* else branch, which adds no caption
ImageParagraphs(i, block, images, disk, raised) ==
    IF ImageOnDisk(images, disk, block.url)
    THEN IF ~raised
         THEN <<Para("image", i, "Normal", "CENTER", <<PictureRun>>)>>
              \o (IF block.caption # <<>>
                  THEN <<Para("caption", i, "Normal", "CENTER", <<ItalicRun(block.caption)>>)>>
                  ELSE <<>>)
         ELSE <<Para("image", i, "Normal", "CENTER",
                     <<EmptyRun, ItalicRun(NotDisplayed)>>
                     \o (IF block.caption # <<>>
                         THEN <<PlainRun(<<"\n">> \o block.caption)>> ELSE <<>>))>>
    ELSE <<Para("image", i, "Normal", "CENTER", <<ItalicRun(Unavailable)>>)>>

\* image_urls: the image blocks, in order
ImageBlocks(res) == SelectSeq(res.content_blocks, LAMBDA b : b.type = "image")

----------------------------------------------------------------------------
(* ArticleDownloader.run: scraper.py *)

\* a run that goes on to build the document whatever check_structure raised
AfterCheck_Swallow(v) ==
    [pc |-> "build", error |-> "", ticks |-> <<Pct(50), Pct(60)>>]

\* the try/except around check_structure and the tick before create_docx
AfterCheck(v) ==
    IF v.kind = "True"
    THEN [pc |-> "build", error |-> "", ticks |-> <<Pct(50), Pct(60)>>]
    ELSE IF v.kind = "ValueError"
    THEN [pc |-> "failed", error |-> "ValueError", ticks |-> <<Pct(100)>>]
    ELSE [pc |-> "failed", error |-> v.kind, ticks |-> <<>>]

article_url == <<"https://www.example.com/article">>

\* a run that hands back the bare file name create_docx returned
ReturnedPath_FileNameOnly(uid, filename) == <<filename>>

\* path = f"temp/{unique_id}/{filename}", the third element of what run returns
ReturnedPath(uid, filename) == <<"temp", uid, filename>>

----------------------------------------------------------------------------
(* Spec: the articles the scraper may return and the disks a run may find *)

\* text contents: empty, plain, and one the inline scan splits into two runs
RunTexts == {<<>>, <<"a">>, <<"*", "a", "*", "b">>}

Captions == {<<>>, <<"c">>}

Dates == {<<>>, <<"2025-06-18">>}

ValidBlocks ==
    {DictBlock({"type", "content"}, "text", t, "none", <<>>) : t \in RunTexts}
    \cup {DictBlock({"type", "url", "alt_text", "caption"}, "image", <<>>, u, c) :
            u \in Urls, c \in Captions}

InvalidBlocks ==
    {NotADict,
     DictBlock({"type"}, "text", <<>>, "none", <<>>),
     DictBlock({"type", "url", "alt_text"}, "image", <<>>, "u1", <<>>),
     DictBlock({"type", "content"}, "video", <<"a">>, "none", <<>>),
     DictBlock({"type", "content"}, "unhashable", <<"a">>, "none", <<>>)}

ScrapeResults ==
    {NotAResultDict,
     ResultDict(required_keys \ {"author"}, <<"2025-06-18">>, TRUE, <<>>),
     ResultDict(required_keys, <<"2025-06-18">>, FALSE, <<>>)}
    \cup {ResultDict(required_keys, d, TRUE, b) :
            d \in Dates, b \in SeqsUpTo(ValidBlocks \cup InvalidBlocks, MaxBlocks)}

\* nothing yet; a session that built before; a session whose earlier build died
\* between download and cleanup
InitialDisks ==
    {{},
     {<<"temp">>, SessionDir(unique_id), docx_session_path(unique_id, docx_filename)},
     {<<"temp">>, SessionDir(unique_id), image_session_path(unique_id),
      Append(image_session_path(unique_id), "stale_0001.png")}}

Init ==
    /\ pc = "start"
    /\ result = "none"
    /\ fs \in InitialDisks
    /\ fs0 = fs
    /\ progress = <<>>
    /\ im_dict = <<>>
    /\ idx = 0
    /\ doc = NewDocument
    /\ log = {}
    /\ error = ""
    /\ returned = <<>>
    /\ CheckIdle /\ InterpIdle /\ ScanIdle /\ BorderIdle /\ TwoIdle /\ SingletonIdle /\ AppIdle

Tick(ps) == progress' = progress \o ps

\* run, line 190-195: the first tick, scrape(url), the second tick
Scrape ==
    /\ pc = "start"
    /\ \E r \in ScrapeResults : result' = r
    /\ Tick(<<Pct(10), Pct(40)>>)
    /\ pc' = "validate"
    /\ UNCHANGED <<fs, fs0, im_dict, idx, doc, log, error, returned, notRun>>

\* run, line 197-206
Validate ==
    /\ pc = "validate"
    /\ LET a == AfterCheck(check_structure(result))
       IN /\ pc' = a.pc
          /\ error' = a.error
          /\ Tick(a.ticks)
    /\ UNCHANGED <<result, fs, fs0, im_dict, idx, doc, log, returned, notRun>>

\* create_page_bordered_docx, line 94-116, with an image block: the tick and the
\* head of _temp_download_images (line 352-371)
BuildWithImages ==
    /\ pc = "build"
    /\ ImageBlocks(result) # <<>>
    /\ fs' = EnsureDownloadPath(EnsureTempRoot(fs, unique_id), image_session_path(unique_id))
    /\ Tick(<<Pct(65)>>)
    /\ im_dict' = <<>>
    /\ idx' = 0
    /\ pc' = "download"
    /\ UNCHANGED <<result, fs0, doc, log, error, returned, notRun>>

\* create_page_bordered_docx, line 94-116, without image blocks: images = {}
BuildWithoutImages ==
    /\ pc = "build"
    /\ ImageBlocks(result) = <<>>
    /\ fs' = EnsureTempRoot(fs, unique_id)
    /\ im_dict' = <<>>
    /\ pc' = "shell"
    /\ UNCHANGED <<result, fs0, progress, idx, doc, log, error, returned, notRun>>

\* _temp_download_images, one pass of the loop, line 373-439
DownloadImage ==
    /\ pc = "download"
    /\ idx < Len(ImageBlocks(result))
    /\ LET images == ImageBlocks(result)
           u == images[idx + 1].url
           path == image_session_path(unique_id)
       IN \E outcome \in Outcomes :
            \* without the directory open(temp_path, 'wb') raises
            /\ outcome # "failed" => CanWrite(fs, PngPath(path, u))
            /\ Tick(<<Band(65, idx, Len(images))>>)
            /\ im_dict' = ImDictAfter(im_dict, path, u, outcome)
            /\ fs' = DiskAfter(fs, path, u, outcome)
            /\ log' = log \cup {LogAfter(idx, u, outcome)}
    /\ idx' = idx + 1
    /\ UNCHANGED <<pc, result, fs0, doc, error, returned, notRun>>

\* _temp_download_images returns; create_page_bordered_docx line 114
DownloadsDone ==
    /\ pc = "download"
    /\ idx = Len(ImageBlocks(result))
    /\ Tick(<<Pct(75)>>)
    /\ pc' = "shell"
    /\ UNCHANGED <<result, fs, fs0, im_dict, idx, doc, log, error, returned, notRun>>

\* create_page_bordered_docx, line 118-164
CreateShell ==
    /\ pc = "shell"
    /\ Tick(<<Pct(80)>>)
    /\ doc' = AddParagraphs(NewDocument, ShellParagraphs(result, article_url))
    /\ idx' = 0
    /\ pc' = "render"
    /\ UNCHANGED <<result, fs, fs0, im_dict, log, error, returned, notRun>>

\* `if i % 5 == 0`: the tick of the block loop
BlockTick(i, total) == IF i % 5 = 0 THEN <<Band(80, i, total)>> ELSE <<>>

\* the block loop, a text block, line 165-249
RenderTextBlock ==
    /\ pc = "render"
    /\ idx < Len(result.content_blocks)
    /\ result.content_blocks[idx + 1].type = "text"
    /\ Tick(BlockTick(idx, Len(result.content_blocks)))
    /\ doc' = AddParagraphs(doc, TextParagraphs(idx + 1, result.content_blocks[idx + 1]))
    /\ idx' = idx + 1
    /\ UNCHANGED <<pc, result, fs, fs0, im_dict, log, error, returned, notRun>>

\* the block loop, an image block, line 165-168 and 251-287; add_picture may raise
RenderImageBlock ==
    /\ pc = "render"
    /\ idx < Len(result.content_blocks)
    /\ result.content_blocks[idx + 1].type = "image"
    /\ Tick(BlockTick(idx, Len(result.content_blocks)))
    /\ LET block == result.content_blocks[idx + 1]
       IN \E raised \in BOOLEAN :
            /\ raised => ImageOnDisk(im_dict, fs, block.url)
            /\ doc' = AddParagraphs(doc, ImageParagraphs(idx + 1, block, im_dict, fs, raised))
            /\ log' = IF raised
                      THEN log \cup {[event |-> "Error adding image to document",
                                      at |-> idx, url |-> block.url]}
                      ELSE log
    /\ idx' = idx + 1
    /\ UNCHANGED <<pc, result, fs, fs0, im_dict, error, returned, notRun>>

\* after the loop, line 289-302: the temp images go, the border is added
CleanupAndBorder ==
    /\ pc = "render"
    /\ idx = Len(result.content_blocks)
    /\ fs' = IF ImageBlocks(result) # <<>>
             THEN TempDeleteImages(fs, image_session_path(unique_id))
             ELSE fs
    /\ doc' = add_page_border(doc, border_color, border_width)
    /\ pc' = "save"
    /\ UNCHANGED <<result, fs0, progress, im_dict, idx, log, error, returned, notRun>>

\* create_page_bordered_docx, line 304-311: doc.save writes the file
SaveDocument ==
    /\ pc = "save"
    /\ CanWrite(fs, docx_session_path(unique_id, docx_filename))
    /\ fs' = fs \cup {docx_session_path(unique_id, docx_filename)}
    /\ Tick(<<Pct(95), Pct(98)>>)
    /\ pc' = "created"
    /\ UNCHANGED <<result, fs0, im_dict, idx, doc, log, error, returned, notRun>>

\* create_docx returns the file name; run, line 209-214
RunFinish ==
    /\ pc = "created"
    /\ Tick(<<Pct(90), Pct(100)>>)
    /\ returned' = ReturnedPath(unique_id, docx_filename)
    /\ pc' = "done"
    /\ UNCHANGED <<result, fs, fs0, im_dict, idx, doc, log, error, notRun>>

\* create_page_bordered_docx, line 304-307: doc.save raises FileNotFoundError, the
\* session directory is missing; nothing catches it before run's caller
SaveFails ==
    /\ pc = "save"
    /\ ~CanWrite(fs, docx_session_path(unique_id, docx_filename))
    /\ Tick(<<Pct(95)>>)
    /\ error' = "FileNotFoundError"
    /\ pc' = "failed"
    /\ UNCHANGED <<result, fs, fs0, im_dict, idx, doc, log, returned, notRun>>

Next ==
    \/ Scrape
    \/ Validate
    \/ BuildWithImages
    \/ BuildWithoutImages
    \/ DownloadImage
    \/ DownloadsDone
    \/ CreateShell
    \/ RenderTextBlock
    \/ RenderImageBlock
    \/ CleanupAndBorder
    \/ SaveDocument
    \/ RunFinish
    \/ SaveFails

Spec == Init /\ [][Next]_vars

----------------------------------------------------------------------------
(* Properties of one run (Spec) *)

Finished == pc \in {"done", "failed"}

\* check_structure accepted the scraped value
Accepted == pc \notin {"idle", "start"} /\ check_structure(result) = ReturnsTrue

Monotone(ps) == \A i \in 1..Len(ps) : \A j \in i..Len(ps) : PctLeq(ps[i], ps[j])

\* C1: across a complete successful run the reported percentages never decrease and
\* the last one is 100.
C1_ProgressNeverDecreases ==
    pc = "done" => Monotone(progress) /\ progress[Len(progress)] = Pct(100)

DocxPath == docx_session_path(unique_id, docx_filename)

\* C2: a valid article without image blocks is built without error whatever the
\* session directory's state was, the acquisition stage is skipped, and the output
\* file exists at temp/{sessionID}/{filename} when the build returns.
C2_BuildWithoutImagesSucceeds ==
    (Finished /\ Accepted /\ ImageBlocks(result) = <<>>)
        => pc = "done" /\ error = "" /\ log = {} /\ Exists(fs, DocxPath)

\* C3: when check_structure raises ValueError, run raises ValueError; and whenever
\* check_structure does not return True the run ends there: create_docx is not
\* entered, and the disk, the image map and the document are as they were.
C3_RejectedRunTouchesNothing ==
    (pc \notin {"idle", "start", "validate"} /\ check_structure(result) # ReturnsTrue)
        => /\ pc = "failed"
           /\ check_structure(result).kind = "ValueError" => error = "ValueError"
           /\ error # ""
           /\ fs = fs0
           /\ im_dict = <<>> /\ doc = NewDocument /\ log = {} /\ returned = <<>>

\* a rejected run on a disk that already holds the session's files
C3_Witness ==
    /\ pc = "failed" /\ error = "ValueError"
    /\ Len(result.content_blocks) = MaxBlocks
    /\ Exists(fs0, DocxPath)

SucceededFor(u) ==
    \E l \in log : l.url = u /\ l.event \in {"converted and saved", "Image conversion failed"}

FailedFor(u) == \E l \in log : l.url = u /\ l.event = "Failed to download"

AcquisitionOver == pc \in {"shell", "render", "save", "created", "done"}

\* C7 as stated: after acquisition a url with a failed attempt is not a key, and every
\* other url whose fetch and write succeeded is a key.
C7_FailedUrlAbsent ==
    AcquisitionOver =>
        \A u \in Urls : /\ FailedFor(u) => u \notin DOMAIN im_dict
                        /\ (~FailedFor(u) /\ SucceededFor(u)) => u \in DOMAIN im_dict

\* C7, amended: at every point of the acquisition and after it, the keys of the map
\* are exactly the urls for which at least one pass fetched and wrote the image; a
\* url all of whose passes failed is not a key, and every key is the url of an image
\* block of the article.
C7_KeysAreUrlsAcquiredOnce ==
    pc \in {"download", "shell", "render", "save", "created", "done"} =>
        /\ DOMAIN im_dict = {u \in Urls : SucceededFor(u)}
        /\ \A u \in Urls : (FailedFor(u) /\ ~SucceededFor(u)) => u \notin DOMAIN im_dict
        /\ DOMAIN im_dict \subseteq {ImageBlocks(result)[k].url : k \in 1..Len(ImageBlocks(result))}

\* the same url in two image blocks: one pass failed, the other succeeded
C7_Witness ==
    /\ pc = "shell"
    /\ \E u \in Urls : FailedFor(u) /\ SucceededFor(u) /\ u \in DOMAIN im_dict

ParagraphsOf(i, kind) ==
    {k \in 1..Len(doc.paragraphs) : doc.paragraphs[k].block = i /\ doc.paragraphs[k].kind = kind}

HasText(p, t) == \E k \in 1..Len(p.runs) : p.runs[k].text = t

HasPicture(p) == \E k \in 1..Len(p.runs) : p.runs[k].pic

HasPlaceholder(p) == HasText(p, Unavailable) \/ HasText(p, NotDisplayed)

EmbedRaised(i) == \E l \in log : l.event = "Error adding image to document" /\ l.at = i - 1

ImageIndices == {i \in 1..Len(result.content_blocks) : result.content_blocks[i].type = "image"}

\* C8: a build with image blocks completes whatever the acquisition did; an image block
\* whose url was not acquired is one paragraph holding just "[Image unavailable]";
\* "[Image could not be displayed]" appears only for a block whose image was acquired,
\* was on disk and whose embedding raised; every image block has exactly one image
\* paragraph, holding either the picture or a placeholder, never both, never neither.
C8_PlaceholdersByCause ==
    /\ (pc = "render" => \A u \in DOMAIN im_dict : Exists(fs, im_dict[u]))
    /\ (Finished /\ Accepted /\ ImageBlocks(result) # <<>>) =>
        /\ pc = "done" /\ error = ""
        /\ \A i \in ImageIndices :
            /\ Cardinality(ParagraphsOf(i, "image")) = 1
            /\ \A k \in ParagraphsOf(i, "image") :
                LET p == doc.paragraphs[k]
                    u == result.content_blocks[i].url
                IN /\ u \notin DOMAIN im_dict => p.runs = <<ItalicRun(Unavailable)>>
                   /\ HasText(p, NotDisplayed) <=> (u \in DOMAIN im_dict /\ EmbedRaised(i))
                   /\ HasText(p, Unavailable) <=> u \notin DOMAIN im_dict
                   /\ HasPicture(p) # HasPlaceholder(p)

\* one block never acquired, another acquired whose embedding raised
C8_Witness ==
    /\ pc = "done"
    /\ \E i \in ImageIndices : result.content_blocks[i].url \notin DOMAIN im_dict
    /\ \E i \in ImageIndices : EmbedRaised(i)

\* C9: the caption of an image block with a non-empty caption is in the document
\* whether the image was embedded, its embedding raised, or it was never acquired.
C9_CaptionInEveryOutcome ==
    pc = "done" =>
        \A i \in ImageIndices :
            result.content_blocks[i].caption # <<>> =>
                \E k \in 1..Len(doc.paragraphs) :
                    /\ doc.paragraphs[k].block = i
                    /\ \/ HasText(doc.paragraphs[k], result.content_blocks[i].caption)
                       \/ HasText(doc.paragraphs[k], <<"\n">> \o result.content_blocks[i].caption)

NonEmptyTextBlocks(n) ==
    {i \in 1..n : /\ result.content_blocks[i].type = "text"
                  /\ result.content_blocks[i].content # <<>>}

TextParagraphCount ==
    Cardinality({k \in 1..Len(doc.paragraphs) : doc.paragraphs[k].kind = "text"})

\* C10: the paragraphs emitted for text blocks are as many as the text blocks with a
\* non-empty content: one for each of those, whatever its markers, none for an empty one;
\* during the block loop this holds of the blocks rendered so far.
C10_OneParagraphPerNonEmptyText ==
    /\ pc = "render" => TextParagraphCount = Cardinality(NonEmptyTextBlocks(idx))
    /\ pc \in {"save", "created", "done"} =>
        /\ TextParagraphCount = Cardinality(NonEmptyTextBlocks(Len(result.content_blocks)))
        /\ \A i \in 1..Len(result.content_blocks) :
            Cardinality(ParagraphsOf(i, "text")) =
                IF i \in NonEmptyTextBlocks(Len(result.content_blocks)) THEN 1 ELSE 0

\* an empty text block beside one the scan splits into several runs
C10_Witness ==
    /\ pc = "done"
    /\ \E i \in 1..Len(result.content_blocks) :
        /\ result.content_blocks[i].type = "text"
        /\ result.content_blocks[i].content = <<>>
    /\ \E k \in 1..Len(doc.paragraphs) :
        doc.paragraphs[k].kind = "text" /\ Len(doc.paragraphs[k].runs) > 1

\* C11: the document holds what the blocks produced in block order; during the loop
\* only the blocks already visited have paragraphs; after it every image block has its
\* one image paragraph and every non-empty text block its one text paragraph, whatever
\* failed for the blocks before it.
C11_EveryBlockOnceInOrder ==
    pc \in {"render", "save", "created", "done"} =>
        /\ \A j \in 1..Len(doc.paragraphs) : \A k \in j..Len(doc.paragraphs) :
            doc.paragraphs[j].block <= doc.paragraphs[k].block
        /\ pc = "render" =>
            {doc.paragraphs[k].block : k \in 1..Len(doc.paragraphs)} \subseteq 0..idx
        /\ pc # "render" =>
            \A i \in 1..Len(result.content_blocks) :
                /\ Cardinality(ParagraphsOf(i, "image")) =
                    IF i \in ImageIndices THEN 1 ELSE 0
                /\ Cardinality(ParagraphsOf(i, "text")) =
                    IF i \in NonEmptyTextBlocks(Len(result.content_blocks)) THEN 1 ELSE 0
                /\ ParagraphsOf(i, "caption") # {} => i \in ImageIndices

\* the first block's image failed (never acquired, or its embedding raised) and the
\* block after it is in the document
C11_Witness ==
    /\ pc = "done"
    /\ Len(result.content_blocks) >= 2
    /\ 1 \in ImageIndices
    /\ \/ result.content_blocks[1].url \notin DOMAIN im_dict
       \/ EmbedRaised(1)
    /\ \E k \in 1..Len(doc.paragraphs) : doc.paragraphs[k].block = 2

ImageDir == image_session_path(unique_id)

Below(disk, dir) == {q \in disk : IsPrefix(dir, q)}

\* C13: once the block loop and the cleanup are over, the session's temp_images
\* directory and everything in it are gone if the article has an image block, and are
\* exactly what they were before the build if it has none.
C13_CleanupIffImageBlocks ==
    (pc \in {"save", "created", "done"} \/ (pc = "failed" /\ error = "FileNotFoundError")) =>
        IF ImageBlocks(result) # <<>>
        THEN Below(fs, ImageDir) = {}
        ELSE Below(fs, ImageDir) = Below(fs0, ImageDir)

\* a build with image blocks, one of them acquired, on a disk that held stale images
C13_Witness ==
    /\ pc = "done"
    /\ ImageBlocks(result) # <<>>
    /\ DOMAIN im_dict # {}
    /\ Below(fs0, ImageDir) # {}

\* doc.save has written this build's document
Saved == pc \in {"created", "done"}

\* C22: in a build with image blocks the temporary images are deleted only after the
\* document has been saved: until the save, every image the build acquired is on disk.
C22_ImagesKeptUntilSaved ==
    (pc \in {"download", "shell", "render", "save", "failed"}
     /\ ImageBlocks(result) # <<>> /\ ~Saved)
        => \A u \in DOMAIN im_dict : Exists(fs, im_dict[u])

----------------------------------------------------------------------------
(* Properties of check_structure (SpecCheck) *)

\* the structural contract of the docstring and of spec section 6
ValidBlock(b) ==
    /\ b.isDict
    /\ "type" \in b.keys
    /\ \/ b.type = "text" /\ "content" \in b.keys
       \/ b.type = "image" /\ {"url", "alt_text", "caption"} \subseteq b.keys

ValidStructure(res) ==
    /\ res.isDict
    /\ required_keys \subseteq res.keys
    /\ res.cbIsList
    /\ \A k \in 1..Len(res.content_blocks) : ValidBlock(res.content_blocks[k])

\* C4: check_structure returns True exactly for a valid structure and raises ValueError
\* for every other input.
C4_TrueOrValueError ==
    verdict # NoVerdict =>
        IF ValidStructure(candidate) THEN verdict = ReturnsTrue
        ELSE verdict.kind = "ValueError"

\* the rules in check order: 1..3 the top level, 3k+1..3k+3 block k's is-a-dict, valid
\* type, required fields
RuleViolated(res, r) ==
    IF r = 1 THEN ~res.isDict
    ELSE IF r = 2 THEN ~(required_keys \subseteq res.keys)
    ELSE IF r = 3 THEN ~res.cbIsList
    ELSE LET b == res.content_blocks[(r - 1) \div 3]
             part == (r - 1) % 3
         IN IF part = 0 THEN ~b.isDict
            ELSE IF part = 1 THEN "type" \notin b.keys \/ b.type \notin {"text", "image"}
            ELSE \/ b.type = "text" /\ "content" \notin b.keys
                 \/ b.type = "image" /\ ~({"url", "alt_text", "caption"} \subseteq b.keys)

RuleMessage(res, r) ==
    IF r = 1 THEN "Result must be a dictionary"
    ELSE IF r = 2 THEN "Result must contain keys"
    ELSE IF r = 3 THEN "content_blocks must be a list"
    ELSE IF (r - 1) % 3 = 0 THEN "Each content block must be a dictionary"
    ELSE IF (r - 1) % 3 = 1 THEN "Each content block must have a valid 'type' key"
    ELSE IF res.content_blocks[(r - 1) \div 3].type = "text"
    THEN "Text blocks must have a 'content' key"
    ELSE "Image blocks must have 'url' and 'alt_text' keys"

ViolatedRules(res) ==
    {r \in 1..(3 * Len(res.content_blocks) + 3) : RuleViolated(res, r)}

\* C5: the ValueError check_structure raises carries the message of the first violated
\* rule in check order, and of that rule only.
C5_FirstViolationReported ==
    verdict.kind = "ValueError" =>
        /\ ViolatedRules(candidate) # {}
        /\ verdict.msg = RuleMessage(candidate, Min(ViolatedRules(candidate)))

\* two blocks that break different rules, and three rules broken in all
C5_Witness ==
    /\ verdict.kind = "ValueError"
    /\ Len(candidate.content_blocks) = 2
    /\ \E r1 \in {4, 5, 6}, r2 \in {7, 8, 9} :
        /\ {r1, r2} \subseteq ViolatedRules(candidate)
        /\ RuleMessage(candidate, r1) # RuleMessage(candidate, r2)

----------------------------------------------------------------------------
(* Properties of the interpreter (SpecInterp) *)

Count(s, c) == Cardinality({i \in 1..Len(s) : s[i] = c})

\* one ** that nothing closes and no other marker pair: the two stars of the marker are
\* the only stars, there is at most one underscore, the text is not a heading and
\* holds a letter
UnmatchedBoldOnly(t) ==
    /\ Find(t, BoldMarker, 0) # -1
    /\ "a" \in Range(t)
    /\ Count(t, "*") = 2
    /\ Count(t, "_") <= 1
    /\ "#" \notin Range(t)

\* C6: a text with an opening ** that is never closed, and no other complete span, is
\* rendered as one plain run equal to the text.
C6_UnmatchedBoldIsLiteral ==
    (paragraph # NoParagraph /\ UnmatchedBoldOnly(text_content))
        => paragraph.runs = <<PlainRun(text_content)>>

\* the heading test of the renderer: the whitespace-trimmed text starts with #
IsHeading(t) == StartsWith(LStripChars(t, Whitespace), <<"#">>)

\* C18: a text whose trimmed form starts with # is one bold heading run, level 2 if the
\* trimmed form starts with ##, else level 1; its text is the input without its
\* surrounding whitespace and leading # characters, and never begins with #.
C18_HeadingRunHasNoLeadingHash ==
    (paragraph # NoParagraph /\ IsHeading(text_content)) =>
        LET trimmed == StripChars(text_content, Whitespace)
            expected == StripChars(LStripChars(trimmed, {"#"}), Whitespace)
        IN /\ Len(paragraph.runs) = 1
           /\ paragraph.runs[1].bold /\ ~paragraph.runs[1].italic
           /\ paragraph.style =
                IF StartsWith(trimmed, <<"#", "#">>) THEN "Heading 2" ELSE "Heading 1"
           /\ paragraph.runs[1].text = expected
           /\ ~StartsWith(paragraph.runs[1].text, <<"#">>)

\* C19: a text that is no heading, starts with ** and ends with ** (two markers around
\* an interior that holds a letter) is one bold run holding the text without its first
\* two and its last two characters.
C19_WholeBoldKeepsInterior ==
    (/\ paragraph # NoParagraph
     /\ ~IsHeading(text_content)
     /\ Len(text_content) >= 4
     /\ "a" \in Range(Slice(text_content, 2, Len(text_content) - 2))
     /\ StartsWith(text_content, BoldMarker) /\ EndsWith(text_content, BoldMarker))
        => paragraph.runs = <<BoldRun(Slice(text_content, 2, Len(text_content) - 2))>>

\* the text goes to the inline scan: no heading, not wrapped in ** or _ or *
InlineBranch(t) ==
    /\ ~IsHeading(t)
    /\ ~(StartsWith(t, BoldMarker) /\ EndsWith(t, BoldMarker))
    /\ ~(StartsWith(t, <<"_">>) /\ EndsWith(t, <<"_">>))
    /\ ~(StartsWith(t, <<"*">>) /\ EndsWith(t, <<"*">>))

\* C20: in a scanned text without any **, when a * comes before every _ and a second *
\* closes it before any _, the span between the two stars is emitted as an italic run.
C20_FirstMarkerIsTheItalicMarker ==
    (/\ paragraph # NoParagraph
     /\ InlineBranch(text_content)
     /\ Find(text_content, BoldMarker, 0) = -1
     /\ Find(text_content, <<"*">>, 0) # -1
     /\ Find(text_content, <<"*">>, Find(text_content, <<"*">>, 0) + 1) # -1
     /\ \/ Find(text_content, <<"_">>, 0) = -1
        \/ Find(text_content, <<"_">>, 0) >
            Find(text_content, <<"*">>, Find(text_content, <<"*">>, 0) + 1))
        => LET open == Find(text_content, <<"*">>, 0)
               close == Find(text_content, <<"*">>, open + 1)
           IN \E k \in 1..Len(paragraph.runs) :
                paragraph.runs[k] = ItalicRun(Slice(text_content, open + 1, close))

\* C21: in a scanned text whose first markers are an _ and the _ that closes it around
\* a letter, followed later by a complete ** span, the text between the two underscores
\* is emitted as an italic run.
C21_ItalicBeforeBoldIsItalic ==
    (/\ paragraph # NoParagraph
     /\ InlineBranch(text_content)
     /\ Find(text_content, <<"_">>, 0) # -1
     /\ LET open == Find(text_content, <<"_">>, 0)
            close == Find(text_content, <<"_">>, open + 1)
            bold_start == Find(text_content, BoldMarker, 0)
        IN /\ close # -1
           /\ "a" \in Range(Slice(text_content, open + 1, close))
           /\ "*" \notin Range(Slice(text_content, 0, close))
           /\ bold_start > close
           /\ Find(text_content, BoldMarker, bold_start + 2) # -1)
        => LET open == Find(text_content, <<"_">>, 0)
               close == Find(text_content, <<"_">>, open + 1)
           IN \E k \in 1..Len(paragraph.runs) :
                paragraph.runs[k] = ItalicRun(Slice(text_content, open + 1, close))

----------------------------------------------------------------------------
(* SpecScan: the markup branch of create_page_bordered_docx with its while  *)
(* loop taken one iteration at a time                                       *)

\* one iteration of `while remaining_text:` that, after a bold span, continues on the
\* text from the opening marker instead of the text after the closing one
ScanStep_KeepSpan(rt) ==
    LET bold_start == Find(rt, BoldMarker, 0)
        bold_end == IF bold_start # -1 THEN Find(rt, BoldMarker, bold_start + 2) ELSE -1
        italic_marker == IF "_" \in Range(rt) THEN "_" ELSE "*"
        italic_start == Find(rt, <<italic_marker>>, 0)
        italic_end == IF italic_start # -1
                      THEN Find(rt, <<italic_marker>>, italic_start + 1) ELSE -1
    IN  IF bold_start # -1 /\ bold_end # -1
        THEN [runs |-> (IF bold_start > 0 THEN <<PlainRun(Slice(rt, 0, bold_start))>>
                        ELSE <<>>)
                       \o <<BoldRun(Slice(rt, bold_start + 2, bold_end))>>,
              rest |-> SliceFrom(rt, bold_start), leaves |-> FALSE]
        ELSE IF italic_start # -1 /\ italic_end # -1
        THEN [runs |-> (IF italic_start > 0 THEN <<PlainRun(Slice(rt, 0, italic_start))>>
                        ELSE <<>>)
                       \o <<ItalicRun(Slice(rt, italic_start + 1, italic_end))>>,
              rest |-> SliceFrom(rt, italic_end + 1), leaves |-> FALSE]
        ELSE [runs |-> <<PlainRun(rt)>>, rest |-> rt, leaves |-> TRUE]

\* one iteration of `while remaining_text:` on a non-empty remaining_text: the runs it
\* adds to the paragraph, the remaining_text it assigns, and whether it leaves by break
ScanStep(rt) ==
    LET bold_start == Find(rt, BoldMarker, 0)
        bold_end == IF bold_start # -1 THEN Find(rt, BoldMarker, bold_start + 2) ELSE -1
        italic_marker == IF "_" \in Range(rt) THEN "_" ELSE "*"
        italic_start == Find(rt, <<italic_marker>>, 0)
        italic_end == IF italic_start # -1
                      THEN Find(rt, <<italic_marker>>, italic_start + 1) ELSE -1
    IN  IF bold_start # -1 /\ bold_end # -1
        THEN [runs |-> (IF bold_start > 0 THEN <<PlainRun(Slice(rt, 0, bold_start))>>
                        ELSE <<>>)
                       \o <<BoldRun(Slice(rt, bold_start + 2, bold_end))>>,
              rest |-> SliceFrom(rt, bold_end + 2), leaves |-> FALSE]
        ELSE IF italic_start # -1 /\ italic_end # -1
        THEN [runs |-> (IF italic_start > 0 THEN <<PlainRun(Slice(rt, 0, italic_start))>>
                        ELSE <<>>)
                       \o <<ItalicRun(Slice(rt, italic_start + 1, italic_end))>>,
              rest |-> SliceFrom(rt, italic_end + 1), leaves |-> FALSE]
        ELSE [runs |-> <<PlainRun(rt)>>, rest |-> rt, leaves |-> TRUE]

InitScan ==
    /\ text_content \in Texts
    /\ paragraph = NoParagraph
    /\ remaining_text = <<>>
    /\ scan_pc = "begin"
    /\ RunIdle /\ CheckIdle /\ BorderIdle /\ TwoIdle /\ SingletonIdle /\ AppIdle

\* doc.add_paragraph() and the if/elif chain: a heading or a wrapped text is rendered
\* at once, any other text enters the loop with remaining_text = text_content
ScanBegin ==
    /\ scan_pc = "begin"
    /\ IF InlineBranch(text_content)
       THEN /\ paragraph' = [style |-> "Normal", runs |-> <<>>]
            /\ remaining_text' = text_content
            /\ scan_pc' = "loop"
       ELSE /\ paragraph' = Interpret(text_content)
            /\ scan_pc' = "done"
            /\ UNCHANGED remaining_text
    /\ UNCHANGED <<text_content, notScan>>

\* one pass through the loop body
ScanIterate ==
    /\ scan_pc = "loop"
    /\ remaining_text # <<>>
    /\ LET step == ScanStep(remaining_text)
       IN /\ paragraph' = [paragraph EXCEPT !.runs = @ \o step.runs]
          /\ remaining_text' = step.rest
          /\ scan_pc' = IF step.leaves THEN "done" ELSE "loop"
    /\ UNCHANGED <<text_content, notScan>>

\* the loop condition is false: remaining_text is empty
ScanExit ==
    /\ scan_pc = "loop"
    /\ remaining_text = <<>>
    /\ scan_pc' = "done"
    /\ UNCHANGED <<text_content, paragraph, remaining_text, notScan>>

NextScan == ScanBegin \/ ScanIterate \/ ScanExit

\* the interpreter runs on its own: no step of it waits for anything
SpecScan == InitScan /\ [][NextScan]_vars /\ WF_vars(NextScan)

\* C17: every iteration of the scan loop either shortens remaining_text or leaves the
\* loop, and the interpretation of every non-empty text ends, with the paragraph the
\* whole markup branch computes.
C17_ScanShrinksOrLeaves ==
    /\ [][scan_pc = "loop" =>
            (Len(remaining_text') < Len(remaining_text) \/ scan_pc' = "done")]_vars
    /\ <>(scan_pc = "done")
    /\ [](scan_pc = "done" => paragraph = Interpret(text_content))

\* a text with unmatched and adjacent markers has gone through several iterations
C17_Witness ==
    /\ scan_pc = "done"
    /\ Len(paragraph.runs) >= 3
    /\ remaining_text # <<>>
    /\ \E k \in 1..Len(paragraph.runs) : paragraph.runs[k].text = <<>>

----------------------------------------------------------------------------
(* SpecBorder: _add_page_border called again and again on one document      *)

\* the for loop over doc.sections
AllSectionsBordered(secs, rgb, width) ==
    [k \in 1..Len(secs) |-> SectionBordered(secs[k], rgb, width)]

\* arguments of the calls: the brown and width of create_docx, and others
BorderColors == {border_color, <<0, 0, 0>>, <<255, 160, 9>>}
BorderWidths == {border_width, 4}
BorderArgs == BorderColors \X BorderWidths

\* a document has one section or more; a sectPr holds no pgBorders (a new Document())
\* or the one the schema allows
InitBorder ==
    /\ sections \in UNION {[1..n -> {<<>>, <<PgBorders(<<0, 0, 0>>, 4)>>}] :
                            n \in 1..MaxSections}
    /\ applied = <<>>
    /\ RunIdle /\ CheckIdle /\ InterpIdle /\ ScanIdle /\ TwoIdle /\ SingletonIdle /\ AppIdle

AddPageBorder ==
    /\ Len(applied) < MaxApply
    /\ \E args \in BorderArgs :
        /\ sections' = AllSectionsBordered(sections, args[1], args[2])
        /\ applied' = Append(applied, args)
    /\ UNCHANGED notBorder

NextBorder == AddPageBorder

SpecBorder == InitBorder /\ [][NextBorder]_vars

\* C12: after one application or more every section holds exactly one pgBorders, with
\* the colour (as rrggbb) and width of the latest application; and on the document as
\* it is, applying any arguments twice gives what applying them once gives.
C12_OneBorderOfLatestCall ==
    /\ applied # <<>> =>
        LET last == applied[Len(applied)]
        IN \A k \in 1..Len(sections) :
            /\ Len(sections[k]) = 1
            /\ sections[k][1] = PgBorders(last[1], last[2])
            /\ sections[k][1].color = hex_color(last[1])
            /\ sections[k][1].sz = last[2]
    /\ \A args \in BorderArgs :
        LET once == AllSectionsBordered(sections, args[1], args[2])
        IN AllSectionsBordered(once, args[1], args[2]) = once

\* two sections, one of which had a border before; a second application with another
\* colour and width has replaced the first
C12_Witness ==
    /\ Len(sections) = 2
    /\ Len(applied) >= 2
    /\ applied[Len(applied)][1] # applied[Len(applied) - 1][1]
    /\ applied[Len(applied)][2] # applied[Len(applied) - 1][2]
    /\ applied[Len(applied)] = <<border_color, border_width>>
    /\ sections[1][1].color = <<"9", "6", "2", "a", "2", "e">>

----------------------------------------------------------------------------
(* SpecNet: one run, with image servers that may never answer               *)

\* requests.get(img_url) is called without a timeout: when the server accepts the
\* connection and never responds, the call does not return and nothing interrupts it
FetchHangs ==
    /\ pc = "download"
    /\ idx < Len(ImageBlocks(result))
    /\ Tick(<<Band(65, idx, Len(ImageBlocks(result)))>>)
    /\ pc' = "fetching"
    /\ UNCHANGED <<result, fs, fs0, im_dict, idx, doc, log, error, returned, notRun>>

NextNet == Next \/ FetchHangs

\* the run is one thread that takes its next step whenever it has one
SpecNet == Init /\ [][NextNet]_vars /\ WF_vars(NextNet)

\* C15: every build ends, with success or with an error, even when the server of an
\* image URL never responds.
C15_EveryBuildTerminates == <>Finished

----------------------------------------------------------------------------
(* SpecTwo: two calls of create_page_bordered_docx (two Streamlit sessions   *)
(* in one server process) on one disk. A build is [uuid, images, fetch, pc,  *)
(* im, rendered, error]: its session, whether the article has an image       *)
(* block (of URL u1), what the fetch of that image does, its position, its    *)
(* im_dict keys, what its image block became, and the exception that ended   *)
(* it. A step is one call into the file system.                              *)

Builds == {1, 2}
Sessions == {"s1", "s2"}

TempRoot(uuid) == Dirname(SessionDir(uuid))

BuildRaises(st, d, exc) == [st |-> [st EXCEPT !.pc = "failed", !.error = exc], fs |-> d]

BuildGoes(st, d, to) == [st |-> [st EXCEPT !.pc = to], fs |-> d]

\* os.makedirs(p): missing parents are made and existing ones tolerated, but the leaf
\* must not exist (exist_ok is False)
BuildMakeDirs(st, d, p, to) ==
    IF Exists(d, p) THEN BuildRaises(st, d, "FileExistsError")
    ELSE BuildGoes(st, MakeDirs(d, p), to)

\* the next file-system call of a build on disk d: the build after it and the disk
\* after it
BuildStep(st, d) ==
    LET path == image_session_path(st.uuid)
        png == PngPath(path, "u1")
        docx == docx_session_path(st.uuid, docx_filename)
        afterRoot == IF st.images THEN "dl_check" ELSE "render"
    IN CASE st.pc = "root_check" ->
              \* os.path.exists(os.path.dirname(f'temp/{uuid}'))
              BuildGoes(st, d, IF Exists(d, TempRoot(st.uuid)) THEN afterRoot ELSE "root_make")
         [] st.pc = "root_make" ->
              \* os.makedirs(os.path.dirname(f'temp/{uuid}'))
              BuildMakeDirs(st, d, TempRoot(st.uuid), afterRoot)
         [] st.pc = "dl_check" ->
              \* _temp_download_images: os.path.exists(download_path)
              BuildGoes(st, d, IF Exists(d, path) THEN "fetch" ELSE "dl_make")
         [] st.pc = "dl_make" ->
              \* os.makedirs(download_path), outside the try of the loop
              BuildMakeDirs(st, d, path, "fetch")
         [] st.pc = "fetch" ->
              \* the loop body for the image; whatever it raises is logged and dropped
              IF st.fetch = "converted" /\ CanWrite(d, png)
              THEN [st |-> [st EXCEPT !.pc = "render", !.im = {"u1"}], fs |-> d \cup {png}]
              ELSE BuildGoes(st, d, "render")
         [] st.pc = "render" ->
              \* the image block: a picture when the URL is in images and the file opens
              IF st.images
              THEN [st |-> [st EXCEPT !.pc = "cl_check",
                                      !.rendered = IF "u1" \in st.im /\ Exists(d, png)
                                                   THEN "picture" ELSE "placeholder"],
                    fs |-> d]
              ELSE BuildGoes(st, d, "save")
         [] st.pc = "cl_check" ->
              \* _temp_delete_images: os.path.exists(download_path)
              BuildGoes(st, d, IF Exists(d, path) THEN "cl_rmtree" ELSE "save")
         [] st.pc = "cl_rmtree" ->
              \* shutil.rmtree(download_path)
              IF Exists(d, path) THEN BuildGoes(st, RmTree(d, path), "save")
              ELSE BuildRaises(st, d, "FileNotFoundError")
         [] st.pc = "save" ->
              \* doc.save(docx_session_path)
              IF CanWrite(d, docx) THEN BuildGoes(st, d \cup {docx}, "done")
              ELSE BuildRaises(st, d, "FileNotFoundError")

BuildOver(st) == st.pc \in {"done", "failed"}

NewBuild(uuid, images, fetch) ==
    [uuid |-> uuid, images |-> images, fetch |-> fetch, pc |-> "root_check",
     im |-> {}, rendered |-> "none", error |-> ""]

\* the disk before: empty, temp there, or session s1 built before
TwoDisks ==
    { {},
      {<<"temp">>},
      {<<"temp">>, SessionDir("s1"), docx_session_path("s1", docx_filename)} }

InitTwo ==
    /\ builds \in [Builds -> {NewBuild(u, i, f) :
                                u \in Sessions, i \in BOOLEAN, f \in {"converted", "failed"}}]
    /\ shared_fs \in TwoDisks
    /\ shared_fs0 = shared_fs
    /\ RunIdle /\ CheckIdle /\ InterpIdle /\ ScanIdle /\ BorderIdle /\ SingletonIdle /\ AppIdle

\* build b makes its next file-system call
Advance(b) ==
    LET r == BuildStep(builds[b], shared_fs)
    IN /\ builds' = [builds EXCEPT ![b] = r.st]
       /\ shared_fs' = r.fs

\* create_page_bordered_docx, line 100-101
EnsureRoot(b) ==
    /\ builds[b].pc \in {"root_check", "root_make"}
    /\ Advance(b)
    /\ UNCHANGED <<shared_fs0, notTwo>>

\* _temp_download_images, line 356-357
EnsureImageDir(b) ==
    /\ builds[b].pc \in {"dl_check", "dl_make"}
    /\ Advance(b)
    /\ UNCHANGED <<shared_fs0, notTwo>>

\* _temp_download_images, line 373-439
FetchImage(b) ==
    /\ builds[b].pc = "fetch"
    /\ Advance(b)
    /\ UNCHANGED <<shared_fs0, notTwo>>

\* create_page_bordered_docx, line 163-287
RenderBlocks(b) ==
    /\ builds[b].pc = "render"
    /\ Advance(b)
    /\ UNCHANGED <<shared_fs0, notTwo>>

\* _temp_delete_images, line 329-330
DeleteImages(b) ==
    /\ builds[b].pc \in {"cl_check", "cl_rmtree"}
    /\ Advance(b)
    /\ UNCHANGED <<shared_fs0, notTwo>>

\* create_page_bordered_docx, line 307
SaveDocx(b) ==
    /\ builds[b].pc = "save"
    /\ Advance(b)
    /\ UNCHANGED <<shared_fs0, notTwo>>

NextTwo ==
    \E b \in Builds :
        \/ EnsureRoot(b)
        \/ EnsureImageDir(b)
        \/ FetchImage(b)
        \/ RenderBlocks(b)
        \/ DeleteImages(b)
        \/ SaveDocx(b)

SpecTwo == InitTwo /\ [][NextTwo]_vars

\* the build run to its end with nothing else working on the disk
RECURSIVE RunAlone(_, _)
RunAlone(st, d) ==
    IF BuildOver(st) THEN [st |-> st, fs |-> d]
    ELSE LET r == BuildStep(st, d) IN RunAlone(r.st, r.fs)

\* the paths of a session on a disk
SessionFiles(d, uuid) == {q \in d : IsPrefix(SessionDir(uuid), q)}

\* C14: two concurrent builds with different sessionIDs, under every interleaving, each
\* end with the outcome (success or the same error) and the session files they have when
\* run alone on the disk they started from.
C14_ConcurrentAsAlone ==
    (/\ builds # <<>>
     /\ builds[1].uuid # builds[2].uuid
     /\ \A b \in Builds : BuildOver(builds[b]))
        => \A b \in Builds :
            LET alone == RunAlone(NewBuild(builds[b].uuid, builds[b].images,
                                           builds[b].fetch), shared_fs0)
            IN /\ builds[b].pc = alone.st.pc
               /\ SessionFiles(shared_fs, builds[b].uuid)
                    = SessionFiles(alone.fs, builds[b].uuid)

\* C25: when two builds run concurrently for the same sessionID, an image a build
\* acquired is still on disk when that build renders its block: the block becomes a
\* picture, never the placeholder.
C25_AcquiredImageIsRendered ==
    (/\ builds # <<>>
     /\ builds[1].uuid = builds[2].uuid)
        => \A b \in Builds :
            ("u1" \in builds[b].im /\ builds[b].rendered # "none")
                => builds[b].rendered = "picture"

----------------------------------------------------------------------------
(* SpecSingleton: ArticleDownloader() called by the script threads of two    *)
(* Streamlit sessions (get_article_downloader, and again after Clear has      *)
(* emptied the session state). ArticleDownloader() is __new__ followed by     *)
(* __init__ on what __new__ returned; a thread switch can fall between any    *)
(* two statements. An object is [initialized, inits]: its __initialized       *)
(* attribute ("unset" before line 16 has run) and how many times lines 24-51  *)
(* configured it. A thread is [pc, self, calls].                              *)

Threads == {1, 2}

\* super().__new__(cls): an object without attributes
NewObject == [initialized |-> "unset", inits |-> 0]

InitSingleton ==
    /\ cls_instance = 0
    /\ objects = <<>>
    /\ threads = [t \in Threads |-> [pc |-> "idle", self |-> 0, calls |-> 0]]
    /\ RunIdle /\ CheckIdle /\ InterpIdle /\ ScanIdle /\ BorderIdle /\ TwoIdle /\ AppIdle

ThreadAt(t, at) == threads[t].pc = at

ThreadGoes(t, to) == threads' = [threads EXCEPT ![t].pc = to]

\* get_article_downloader: the session has no article_downloader
CallConstructor(t) ==
    /\ ThreadAt(t, "idle")
    /\ threads[t].calls < MaxCalls
    /\ threads' = [threads EXCEPT ![t].pc = "new_test", ![t].calls = @ + 1]
    /\ UNCHANGED <<cls_instance, objects, notSingleton>>

\* __new__, line 14: if cls._instance is None
NewTest(t) ==
    /\ ThreadAt(t, "new_test")
    /\ ThreadGoes(t, IF cls_instance = 0 THEN "new_make" ELSE "new_return")
    /\ UNCHANGED <<cls_instance, objects, notSingleton>>

\* __new__, line 15: cls._instance = super().__new__(cls)
NewMake(t) ==
    /\ ThreadAt(t, "new_make")
    /\ objects' = Append(objects, NewObject)
    /\ cls_instance' = Len(objects) + 1
    /\ ThreadGoes(t, "new_flag")
    /\ UNCHANGED notSingleton

\* __new__, line 16: cls._instance.__initialized = False, on whatever cls._instance is now
NewFlag(t) ==
    /\ ThreadAt(t, "new_flag")
    /\ objects' = [objects EXCEPT ![cls_instance].initialized = "False"]
    /\ ThreadGoes(t, "new_return")
    /\ UNCHANGED <<cls_instance, notSingleton>>

\* __new__, line 17: return cls._instance; type.__call__ then calls __init__ on it
NewReturn(t) ==
    /\ ThreadAt(t, "new_return")
    /\ threads' = [threads EXCEPT ![t].pc = "init_test", ![t].self = cls_instance]
    /\ UNCHANGED <<cls_instance, objects, notSingleton>>

\* __init__, line 21-22: if self.__initialized: return; the attribute may not be there yet
InitTest(t) ==
    /\ ThreadAt(t, "init_test")
    /\ LET flag == objects[threads[t].self].initialized
       IN ThreadGoes(t, CASE flag = "True" -> "idle"
                          [] flag = "False" -> "init_config"
                          [] flag = "unset" -> "AttributeError")
    /\ UNCHANGED <<cls_instance, objects, notSingleton>>

\* __init__, line 24-51: load_dotenv, api_key, graph_config, default_prompt
InitConfig(t) ==
    /\ ThreadAt(t, "init_config")
    /\ objects' = [objects EXCEPT ![threads[t].self].inits = @ + 1]
    /\ ThreadGoes(t, "init_flag")
    /\ UNCHANGED <<cls_instance, notSingleton>>

\* __init__, line 53: self.__initialized = True
InitFlag(t) ==
    /\ ThreadAt(t, "init_flag")
    /\ objects' = [objects EXCEPT ![threads[t].self].initialized = "True"]
    /\ ThreadGoes(t, "idle")
    /\ UNCHANGED <<cls_instance, notSingleton>>

NextSingleton ==
    \E t \in Threads :
        \/ CallConstructor(t)
        \/ NewTest(t)
        \/ NewMake(t)
        \/ NewFlag(t)
        \/ NewReturn(t)
        \/ InitTest(t)
        \/ InitConfig(t)
        \/ InitFlag(t)

SpecSingleton == InitSingleton /\ [][NextSingleton]_vars

\* C23: whatever the threads do, at most one ArticleDownloader object is ever made and
\* its configuration is set up at most once.
C23_OneInstanceOneInit ==
    /\ Len(objects) <= 1
    /\ \A o \in 1..Len(objects) : objects[o].inits <= 1

----------------------------------------------------------------------------
(* SpecApp: main() of app.py for one authenticated session. Streamlit runs  *)
(* the script from the top after every interaction, a button's on_click      *)
(* callback first; a widget keeps the arguments it was drawn with until the  *)
(* script draws it again.                                                    *)

AppUrls == {"", "https://a", "https://b"}

InitApp ==
    /\ app_pc = "script"
    /\ extracting = FALSE
    /\ url_input = ""
    /\ session_result = "None"
    /\ button_disabled = FALSE
    /\ clear_shown = FALSE
    /\ attempts = <<>>
    /\ RunIdle /\ CheckIdle /\ InterpIdle /\ ScanIdle /\ BorderIdle /\ TwoIdle
    /\ SingletonIdle

\* line 95-193: the session state is initialised, the text box and the Extract button
\* are drawn (disabled=st.session_state.extracting), the results with their Clear
\* button when there are any
DrawPage ==
    /\ app_pc = "script"
    /\ button_disabled' = extracting
    /\ clear_shown' = (session_result # "None")
    /\ app_pc' = "logic"
    /\ UNCHANGED <<extracting, url_input, session_result, attempts, notApp>>

\* line 196-219: run() returns; result and path are stored, the flag is reset and
\* st.rerun() starts the script again
ExtractSucceeds ==
    /\ app_pc = "logic"
    /\ extracting /\ url_input # ""
    /\ session_result' = url_input
    /\ extracting' = FALSE
    /\ attempts' = Append(attempts, "success")
    /\ app_pc' = "script"
    /\ UNCHANGED <<url_input, button_disabled, clear_shown, notApp>>

\* line 221-228: run() raises; the error and a Clear and Try Again button are shown,
\* the flag is reset and the script ends
ExtractRaises ==
    /\ app_pc = "logic"
    /\ extracting /\ url_input # ""
    /\ clear_shown' = TRUE
    /\ extracting' = FALSE
    /\ attempts' = Append(attempts, "exception")
    /\ app_pc' = "waiting"
    /\ UNCHANGED <<url_input, session_result, button_disabled, notApp>>

\* line 230-232: no URL; a warning is shown, the flag is reset and the script ends
MissingUrl ==
    /\ app_pc = "logic"
    /\ extracting /\ url_input = ""
    /\ extracting' = FALSE
    /\ attempts' = Append(attempts, "missing_url")
    /\ app_pc' = "waiting"
    /\ UNCHANGED <<url_input, session_result, button_disabled, clear_shown, notApp>>

\* no extraction was asked for: the script ends
ScriptEnds ==
    /\ app_pc = "logic"
    /\ ~extracting
    /\ app_pc' = "waiting"
    /\ UNCHANGED <<extracting, url_input, session_result, button_disabled, clear_shown,
                   attempts, notApp>>

\* the user clicks Extract Article, which a disabled button does not allow:
\* start_extraction, line 117-124, then the script runs
ClickExtract ==
    /\ app_pc = "waiting"
    /\ ~button_disabled
    /\ Len(attempts) < MaxAttempts
    /\ session_result' = "None"
    /\ extracting' = TRUE
    /\ app_pc' = "script"
    /\ UNCHANGED <<url_input, button_disabled, clear_shown, attempts, notApp>>

\* the user changes the text box, then the script runs
EditUrl ==
    /\ app_pc = "waiting"
    /\ \E u \in AppUrls \ {url_input} : url_input' = u
    /\ app_pc' = "script"
    /\ UNCHANGED <<extracting, session_result, button_disabled, clear_shown, attempts,
                   notApp>>

\* the user clicks a Clear button: clear_results, line 127-132, then the script runs
ClickClear ==
    /\ app_pc = "waiting"
    /\ clear_shown
    /\ session_result' = "None"
    /\ extracting' = FALSE
    /\ url_input' = ""
    /\ app_pc' = "script"
    /\ UNCHANGED <<button_disabled, clear_shown, attempts, notApp>>

NextApp ==
    \/ DrawPage
    \/ ExtractSucceeds
    \/ ExtractRaises
    \/ MissingUrl
    \/ ScriptEnds
    \/ ClickExtract
    \/ EditUrl
    \/ ClickClear

SpecApp == InitApp /\ [][NextApp]_vars

\* C24: once an extraction attempt has ended and the script waits for the user,
\* extracting is False and the Extract button on screen is enabled.
C24_ButtonEnabledAfterAttempt ==
    (app_pc = "waiting" /\ attempts # <<>>) => (~extracting /\ ~button_disabled)

====
